---------------------------- MODULE Spec2Model ----------------------------
(***************************************************************************)
(* A model of deadsy/bcx: the two SHA-256 implementations (sha2 package,   *)
(* the word-array one and the Add512 one), the Base58 codec, the Hash256   *)
(* digest type with its hex constructor and byte serialization, the        *)
(* byte/word conversion helpers of util, and block.Hdr.Bytes.              *)
(*                                                                         *)
(* Representation.  TLC integers are 32-bit signed, so a uint32 is the     *)
(* pair <<hi, lo>> of its two 16-bit halves and every operation on it is   *)
(* written on the halves, keeping the 32-bit width (sums wrap modulo       *)
(* 2^32).  A byte is an integer in 0..255.  A Go slice or array is a       *)
(* sequence; Go's 0-based index i is the sequence index i + 1.  A string   *)
(* is the sequence of its one-character strings.                           *)
(***************************************************************************)
EXTENDS Integers, Sequences

VARIABLES
    arr,    \* the caller-owned backing array the argument slices view
    orig,   \* the caller's copy of arr taken when the calls were made
    call,   \* call[p]: the frame of caller p's Sha2_256 call
    enc,    \* the frame of the Encode call
    dec,    \* the result of the Decode call
    dg      \* the digest workbench: FromString, Bytes, Copy, Conv*, Hdr.Bytes

vars == <<arr, orig, call, enc, dec, dg>>

-----------------------------------------------------------------------------
(* Bounds of the model.                                                    *)

\* Sha2_256 inputs have 0..MaxLen bytes (the lengths around block ends).
MaxLen == 128
\* Sha2_256 inputs are filled from MaxSeed + 1 different first bytes.
MaxSeed == 1

-----------------------------------------------------------------------------
(* 32-bit words as 16-bit halves.                                          *)

Pow2(n) == 2 ^ n

RECURSIVE AndBits(_, _)
AndBits(a, b) ==
    IF a = 0 \/ b = 0 THEN 0
    ELSE (a % 2) * (b % 2) + 2 * AndBits(a \div 2, b \div 2)

\* a & b on 4-bit values, tabulated once.
AndNib == [a \in 0..15 |-> [b \in 0..15 |-> AndBits(a, b)]]

\* a & b on 16-bit values.
And16(a, b) ==
    AndNib[a % 16][b % 16]
    + 16 * AndNib[(a \div 16) % 16][(b \div 16) % 16]
    + 256 * AndNib[(a \div 256) % 16][(b \div 256) % 16]
    + 4096 * AndNib[a \div 4096][b \div 4096]

\* a ^ b on 16-bit values.
Xor16(a, b) == a + b - 2 * And16(a, b)

\* x & y
And32(x, y) == <<And16(x[1], y[1]), And16(x[2], y[2])>>

\* x ^ y
Xor32(x, y) == <<Xor16(x[1], y[1]), Xor16(x[2], y[2])>>

\* ^x
Not32(x) == <<65535 - x[1], 65535 - x[2]>>

\* x + y on uint32: the sum modulo 2^32.
Add32(x, y) ==
    LET lo == x[2] + y[2]
        hi == x[1] + y[1] + (lo \div 65536)
    IN  <<hi % 65536, lo % 65536>>

\* x >> n on uint32, 0 <= n < 32.
Shr32(x, n) ==
    IF n >= 16 THEN <<0, x[1] \div Pow2(n - 16)>>
    ELSE <<x[1] \div Pow2(n),
           (x[2] \div Pow2(n)) + (x[1] % Pow2(n)) * Pow2(16 - n)>>

\* A mutant of rRotate: the word is rotated left instead of right.
rRotate_left(x, n) ==
    LET m == (32 - n) % 16
        a == IF 32 - n >= 16 THEN x[2] ELSE x[1]
        b == IF 32 - n >= 16 THEN x[1] ELSE x[2]
    IN  <<(a \div Pow2(m)) + (b % Pow2(m)) * Pow2(16 - m),
          (b \div Pow2(m)) + (a % Pow2(m)) * Pow2(16 - m)>>

\* rRotate(x, n) = bits.RotateLeft32(x, -n): x rotated right by n, 0 < n < 32.
rRotate(x, n) ==
    LET m == n % 16
        a == IF n >= 16 THEN x[2] ELSE x[1]
        b == IF n >= 16 THEN x[1] ELSE x[2]
    IN  <<(a \div Pow2(m)) + (b % Pow2(m)) * Pow2(16 - m),
          (b \div Pow2(m)) + (a % Pow2(m)) * Pow2(16 - m)>>

-----------------------------------------------------------------------------
(* sha2: constants.                                                        *)

Size256 == 32

hInit ==
  <<
    <<27145, 58983>>, <<47975, 44677>>, <<15470, 62322>>, <<42319, 62778>>,
    <<20750, 21119>>, <<39685, 26764>>, <<8067, 55723>>, <<23520, 52505>>
  >>

k ==
  <<
    <<17034, 12184>>, <<28983, 17553>>, <<46528, 64463>>, <<59829, 56229>>,
    <<14678, 49755>>, <<23025, 4593>>, <<37439, 33444>>, <<43804, 24277>>,
    <<55303, 43672>>, <<4739, 23297>>, <<9265, 34238>>, <<21772, 32195>>,
    <<29374, 23924>>, <<32990, 45566>>, <<39900, 1703>>, <<49563, 61812>>,
    <<58523, 27073>>, <<61374, 18310>>, <<4033, 40390>>, <<9228, 41420>>,
    <<11753, 11375>>, <<19060, 33962>>, <<23728, 43484>>, <<30457, 35034>>,
    <<38974, 20818>>, <<43057, 50797>>, <<45059, 10184>>, <<48985, 32711>>,
    <<50912, 3059>>, <<54695, 37191>>, <<1738, 25425>>, <<5161, 10599>>,
    <<10167, 2693>>, <<11803, 8504>>, <<19756, 28156>>, <<21304, 3347>>,
    <<25866, 29524>>, <<30314, 2747>>, <<33218, 51502>>, <<37490, 11397>>,
    <<41663, 59553>>, <<43034, 26187>>, <<49739, 35696>>, <<51052, 20899>>,
    <<53650, 59417>>, <<54937, 1572>>, <<62478, 13701>>, <<4202, 41072>>,
    <<6564, 49430>>, <<7735, 27656>>, <<10056, 30540>>, <<13488, 48309>>,
    <<14620, 3251>>, <<20184, 43594>>, <<23452, 51791>>, <<26670, 28659>>,
    <<29839, 33518>>, <<30885, 25455>>, <<33992, 30740>>, <<36039, 520>>,
    <<37054, 65530>>, <<42064, 27883>>, <<48889, 41975>>, <<50801, 30962>>
  >>


-----------------------------------------------------------------------------
(* util / sha2: byte and word conversion.                                  *)

Zeros(n) == [i \in 1..n |-> 0]

\* A mutant of WordByte: the four bytes least significant first.
WordByte_le(w, b) ==
    CASE b = 3 -> w[1] \div 256
      [] b = 2 -> w[1] % 256
      [] b = 1 -> w[2] \div 256
      [] b = 0 -> w[2] % 256

\* The four bytes of word w, most significant first:
\* uint8(w >> 24), uint8(w >> 16), uint8(w >> 8), uint8(w >> 0).
WordByte(w, b) ==
    CASE b = 0 -> w[1] \div 256
      [] b = 1 -> w[1] % 256
      [] b = 2 -> w[2] \div 256
      [] b = 3 -> w[2] % 256

\* (uint32(s0) << 24) | (uint32(s1) << 16) | (uint32(s2) << 8) | uint32(s3)
ByteWord(s0, s1, s2, s3) == <<s0 * 256 + s1, s2 * 256 + s3>>

\* util.Conv32to8(dst, src): panics, before any write, unless
\* len(dst) = 4 * len(src); else stores each word big-endian into dst.
Conv32to8(dst, src) ==
    IF Len(dst) # 4 * Len(src)
    THEN [panic |-> TRUE, dst |-> dst]
    ELSE [panic |-> FALSE,
          dst |-> [i \in 1..Len(dst) |->
                     WordByte(src[((i - 1) \div 4) + 1], (i - 1) % 4)]]

\* util.Conv8to32(dst, src): panics, before any write, unless
\* len(src) = 4 * len(dst); else loads each word big-endian from src.
Conv8to32(dst, src) ==
    IF Len(src) # 4 * Len(dst)
    THEN [panic |-> TRUE, dst |-> dst]
    ELSE [panic |-> FALSE,
          dst |-> [i \in 1..Len(dst) |->
                     ByteWord(src[4 * (i - 1) + 1], src[4 * (i - 1) + 2],
                              src[4 * (i - 1) + 3], src[4 * (i - 1) + 4])]]

\* sha2.conv8to32 (the word-array implementation's own copy).
conv8to32(dst, src) ==
    IF Len(src) # 4 * Len(dst)
    THEN [panic |-> TRUE, dst |-> dst]
    ELSE [panic |-> FALSE,
          dst |-> [i \in 1..Len(dst) |->
                     ByteWord(src[4 * (i - 1) + 1], src[4 * (i - 1) + 2],
                              src[4 * (i - 1) + 3], src[4 * (i - 1) + 4])]]

\* sha2.conv32to8 (the word-array implementation's own copy).
conv32to8(dst, src) ==
    IF Len(dst) # 4 * Len(src)
    THEN [panic |-> TRUE, dst |-> dst]
    ELSE [panic |-> FALSE,
          dst |-> [i \in 1..Len(dst) |->
                     WordByte(src[((i - 1) \div 4) + 1], (i - 1) % 4)]]

\* Hash256.Bytes: var out [Size256]byte; util.Conv32to8(out[:], h[:]).
Bytes(h) == Conv32to8(Zeros(Size256), h).dst

\* Hash256.Copy(dst): panics, before any write, unless len(dst) = Size256;
\* else copies the big-endian bytes of h into dst.
Copy(h, dst) ==
    IF Len(dst) # Size256
    THEN [panic |-> TRUE, dst |-> dst]
    ELSE [panic |-> FALSE, dst |-> Conv32to8(Zeros(Size256), h).dst]

-----------------------------------------------------------------------------
(* sha2: padding.                                                          *)

\* A mutant of PadAmount: the room test is off by one (pad < 8).
PadAmount_lt8(n) ==
    LET pad == 64 - (n % 64) IN IF pad < 8 THEN pad + 64 ELSE pad

\* pad := 64 - (n % 64); if pad < 9 { pad += 64 }
PadAmount(n) ==
    LET pad == 64 - (n % 64) IN IF pad < 9 THEN pad + 64 ELSE pad

\* uint8(v >> s) for a uint64 v that is below 2^31 here (v = 8 * n).
U64Byte(v, s) == IF s >= 32 THEN 0 ELSE (v \div Pow2(s)) % 256

\* append(data, make([]byte, pad)...): the contents of the result.
Appended(data, pad) == data \o Zeros(pad)

\* data[n] = 0x80
Marked(b, n) == [b EXCEPT ![n + 1] = 128]

\* end := n + pad - 1; n *= 8; data[end-7] .. data[end-0] = n, big-endian.
LenStored(b, n, pad) ==
    LET end == n + pad - 1
        bits == n * 8
    IN  [b EXCEPT ![end - 7 + 1] = U64Byte(bits, 56),
                  ![end - 6 + 1] = U64Byte(bits, 48),
                  ![end - 5 + 1] = U64Byte(bits, 40),
                  ![end - 4 + 1] = U64Byte(bits, 32),
                  ![end - 3 + 1] = U64Byte(bits, 24),
                  ![end - 2 + 1] = U64Byte(bits, 16),
                  ![end - 1 + 1] = U64Byte(bits, 8),
                  ![end - 0 + 1] = U64Byte(bits, 0)]

-----------------------------------------------------------------------------
(* sha2: the compression of one 64-byte chunk.                             *)

\* One iteration of "for i := 16; i < 64; i++": w[i] is appended.
ExtendStep(w, i) ==
    LET v0 == w[i - 15 + 1]
        s0 == Xor32(Xor32(rRotate(v0, 7), rRotate(v0, 18)), Shr32(v0, 3))
        v1 == w[i - 2 + 1]
        s1 == Xor32(Xor32(rRotate(v1, 17), rRotate(v1, 19)), Shr32(v1, 10))
    IN  Append(w, Add32(Add32(Add32(w[i - 16 + 1], s0), w[i - 7 + 1]), s1))

\* The iterations i = from .. to - 1, in order, of "for i := 16; i < 64; i++"
\* over ExtendStep.  (The range is run as two halves, and t = t makes TLC
\* finish the first half before it enters the second: that keeps TLC's
\* evaluation stack shallow and changes nothing in the order of the steps.)
RECURSIVE Extend(_, _, _)
Extend(w, from, to) ==
    IF to - from <= 0 THEN w
    ELSE IF to - from = 1 THEN ExtendStep(w, from)
    ELSE LET mid == (from + to) \div 2
             t == Extend(w, from, mid)
         IN  IF t = t THEN Extend(t, mid, to) ELSE t

\* One iteration of the compression main loop on the working variables
\* v = <<a, b, c, d, e, f, g, h>>.
Round(v, w, i) ==
    LET a == v[1]  b == v[2]  c == v[3]  d == v[4]
        e == v[5]  f == v[6]  g == v[7]  h == v[8]
        s1 == Xor32(Xor32(rRotate(e, 6), rRotate(e, 11)), rRotate(e, 25))
        ch == Xor32(And32(e, f), And32(Not32(e), g))
        tmp1 == Add32(Add32(Add32(Add32(h, s1), ch), k[i + 1]), w[i + 1])
        s0 == Xor32(Xor32(rRotate(a, 2), rRotate(a, 13)), rRotate(a, 22))
        maj == Xor32(Xor32(And32(a, b), And32(a, c)), And32(b, c))
        tmp2 == Add32(s0, maj)
    IN  <<Add32(tmp1, tmp2), a, b, c, Add32(d, tmp1), e, f, g>>

\* The iterations i = from .. to - 1, in order, of "for i := 0; i < 64; i++"
\* over Round (run as two halves, like Extend).
RECURSIVE Rounds(_, _, _, _)
Rounds(v, w, from, to) ==
    IF to - from <= 0 THEN v
    ELSE IF to - from = 1 THEN Round(v, w, from)
    ELSE LET mid == (from + to) \div 2
             t == Rounds(v, w, from, mid)
         IN  IF t = t THEN Rounds(t, w, mid, to) ELSE t

\* Hash256.Add512(data): x after the 64-byte chunk data is compressed into it.
Add512(x, data) ==
    LET w16 == [i \in 1..16 |->
                  ByteWord(data[4 * (i - 1) + 1], data[4 * (i - 1) + 2],
                           data[4 * (i - 1) + 3], data[4 * (i - 1) + 4])]
        w == Extend(w16, 16, 64)
        v == Rounds(x, w, 0, 64)
    IN  [j \in 1..8 |-> Add32(x[j], v[j])]

\* The body of "for i := 0; i < len(data32)/16; i++" of the word-array
\* Sha2_256: h after chunk i of data32 is compressed into it.
Chunk32(h, data32, i) ==
    LET w16 == [j \in 1..16 |-> data32[i * 16 + (j - 1) + 1]]
        w == Extend(w16, 16, 64)
        work == Rounds(h, w, 0, 64)
    IN  [j \in 1..8 |-> Add32(h[j], work[j])]

-----------------------------------------------------------------------------
(* Sha2_256 calls on slices of the caller's array.                         *)
(*                                                                         *)
(* A call's frame: pc, the next statement; impl, which of the two          *)
(* Sha2_256 functions runs; n, len(data) at entry; alias, whether the      *)
(* local slice data still views the caller's array arr; data, the backing  *)
(* array append allocated (when it had to); len, len(data) now; data32,    *)
(* the word copy of the word-array implementation; i, the chunk loop       *)
(* index; x, the chaining value; out, the returned digest.  chunks (the    *)
(* chunk indices compressed so far), rd and wr (the indices of arr the     *)
(* call has read and written) record what the call did.                    *)

Procs == {1, 2}

ShaIdle ==
    [pc |-> "idle", impl |-> "add512", n |-> 0, alias |-> TRUE, data |-> <<>>,
     len |-> 0, data32 |-> <<>>, i |-> 0, x |-> hInit, out |-> <<>>,
     chunks |-> <<>>, rd |-> {}, wr |-> {}]

\* Sha2_256(arr[0:n]) is called: control is at pad512's first statement.
ShaEntry(impl, n) ==
    [ShaIdle EXCEPT !.pc = "pad_append", !.impl = impl, !.n = n, !.len = n]

\* The contents of the call's local slice data.
View(c) == IF c.alias THEN SubSeq(arr, 1, c.len) ELSE c.data

\* The caller's array after the aliasing slice's contents became v.
Stored(v) == v \o SubSeq(arr, Len(v) + 1, Len(arr))

\* pad512: data = append(data, make([]byte, pad)...).  Go's append extends
\* the slice in place, over the caller's array, when cap(data) >= n + pad,
\* and copies into a fresh array otherwise.
PadAppend(p) ==
    LET c == call[p]
        pad == PadAmount(c.n)
        new == Appended(SubSeq(arr, 1, c.n), pad)
    IN  /\ c.pc = "pad_append"
        /\ IF c.n + pad <= Len(arr)
           THEN /\ arr' = Stored(new)
                /\ call' = [call EXCEPT ![p] =
                              [c EXCEPT !.pc = "pad_mark", !.len = c.n + pad,
                                        !.wr = @ \cup ((c.n + 1)..(c.n + pad))]]
           ELSE /\ arr' = arr
                /\ call' = [call EXCEPT ![p] =
                              [c EXCEPT !.pc = "pad_mark", !.len = c.n + pad,
                                        !.alias = FALSE, !.data = new,
                                        !.rd = @ \cup (1..c.n)]]
        /\ UNCHANGED <<orig, enc, dec, dg>>

\* pad512: data[n] = 0x80.
PadMark(p) ==
    LET c == call[p]
        new == Marked(View(c), c.n)
    IN  /\ c.pc = "pad_mark"
        /\ arr' = IF c.alias THEN Stored(new) ELSE arr
        /\ call' = [call EXCEPT ![p] =
                      [c EXCEPT !.pc = "pad_len",
                                !.data = IF c.alias THEN @ ELSE new,
                                !.wr = IF c.alias THEN @ \cup {c.n + 1} ELSE @]]
        /\ UNCHANGED <<orig, enc, dec, dg>>

\* pad512: the eight stores of the bit length, and the return.
PadLen(p) ==
    LET c == call[p]
        new == LenStored(View(c), c.n, c.len - c.n)
    IN  /\ c.pc = "pad_len"
        /\ arr' = IF c.alias THEN Stored(new) ELSE arr
        /\ call' = [call EXCEPT ![p] =
                      [c EXCEPT !.pc = IF c.impl = "words" THEN "conv" ELSE "loop",
                                !.data = IF c.alias THEN @ ELSE new,
                                !.wr = IF c.alias
                                       THEN @ \cup ((c.len - 7)..c.len) ELSE @]]
        /\ UNCHANGED <<orig, enc, dec, dg>>

\* The word-array Sha2_256: data32 := make([]uint32, len(data)/4);
\* conv8to32(data32, data); h := hInit.
ConvWords(p) ==
    LET c == call[p]
        r == conv8to32([j \in 1..(c.len \div 4) |-> <<0, 0>>], View(c))
    IN  /\ c.pc = "conv"
        /\ call' = [call EXCEPT ![p] =
                      [c EXCEPT !.pc = "loop", !.data32 = r.dst,
                                !.rd = IF c.alias THEN @ \cup (1..c.len) ELSE @]]
        /\ UNCHANGED <<arr, orig, enc, dec, dg>>

\* One iteration of the chunk loop: chunk i is compressed into x.
Chunk(p) ==
    LET c == call[p]
        j == c.i * 64
        count == IF c.impl = "words" THEN Len(c.data32) \div 16 ELSE c.len \div 64
    IN  /\ c.pc = "loop"
        /\ c.i < count
        /\ call' = [call EXCEPT ![p] =
              [c EXCEPT
                 !.x = IF c.impl = "words"
                       THEN Chunk32(c.x, c.data32, c.i)
                       ELSE Add512(c.x, SubSeq(View(c), j + 1, j + 64)),
                 !.i = c.i + 1,
                 !.chunks = Append(@, c.i),
                 !.rd = IF c.alias /\ c.impl # "words"
                        THEN @ \cup ((j + 1)..(j + 64)) ELSE @]]
        /\ UNCHANGED <<arr, orig, enc, dec, dg>>

\* The loop ends and the digest is returned: x.Bytes() in the Add512
\* implementation, conv32to8(out[:], h[:]) in the word-array one.
Return(p) ==
    LET c == call[p]
        count == IF c.impl = "words" THEN Len(c.data32) \div 16 ELSE c.len \div 64
    IN  /\ c.pc = "loop"
        /\ c.i >= count
        /\ call' = [call EXCEPT ![p] =
              [c EXCEPT !.pc = "done",
                        !.out = IF c.impl = "words"
                                THEN conv32to8(Zeros(Size256), c.x).dst
                                ELSE Bytes(c.x)]]
        /\ UNCHANGED <<arr, orig, enc, dec, dg>>

-----------------------------------------------------------------------------
(* The inputs of the Sha2_256 calls.                                       *)

\* The n bytes seed, seed + 1, ... (modulo 256); Msg(3, 97) is "abc".
Msg(n, seed) == [i \in 1..n |-> (seed + i - 1) % 256]

Seeds == {(97 + 61 * j) % 256 : j \in 0..MaxSeed}

\* The input lengths: those up to 3 bytes after, or up to 10 before, a
\* multiple of 64 (the block ends).
Lens == {n \in 0..MaxLen : n % 64 <= 3 \/ n % 64 >= 54}

\* The spare capacity of the caller's array beyond the slice: none, too
\* little for any padding, enough for the padding of most lengths, enough
\* for every padding.
Spares == {0, 8, 64, 80}

EncIdle ==
    [pc |-> "idle", n |-> 0, zeroes |-> 0, buf |-> <<>>, high |-> 0, i |-> 0,
     j |-> 0, carry |-> 0, brk |-> FALSE, out |-> <<>>, rd |-> {}]

DecIdle == [pc |-> "idle", err |-> FALSE, out |-> <<>>]

DgIdle == [pc |-> "idle"]

\* One caller hashes arr[0:n] with either implementation.
InitSha ==
    \E n \in Lens, seed \in Seeds, spare \in Spares, impl \in {"add512", "words"} :
        /\ arr = Msg(n + spare, seed)
        /\ orig = Msg(n + spare, seed)
        /\ call = [p \in Procs |-> IF p = 1 THEN ShaEntry(impl, n) ELSE ShaIdle]
        /\ enc = EncIdle
        /\ dec = DecIdle
        /\ dg = DgIdle

NextSha ==
    \E p \in {1} :
        \/ PadAppend(p)
        \/ PadMark(p)
        \/ PadLen(p)
        \/ ConvWords(p)
        \/ Chunk(p)
        \/ Return(p)

SpecSha == InitSha /\ [][NextSha]_vars

-----------------------------------------------------------------------------
(* Reference digests: SHA-256 of Msg(n, seed) as <<n, seed, digest>>,      *)
(* from the standard (FIPS 180-4) function.                                *)

SHA256Vectors ==
  {
    <<0, 97, <<227, 176, 196, 66, 152, 252, 28, 20, 154, 251, 244, 200, 153, 111, 185, 36, 39, 174, 65, 228, 100, 155, 147, 76, 164, 149, 153, 27, 120, 82, 184, 85>>>>,
    <<0, 158, <<227, 176, 196, 66, 152, 252, 28, 20, 154, 251, 244, 200, 153, 111, 185, 36, 39, 174, 65, 228, 100, 155, 147, 76, 164, 149, 153, 27, 120, 82, 184, 85>>>>,
    <<0, 219, <<227, 176, 196, 66, 152, 252, 28, 20, 154, 251, 244, 200, 153, 111, 185, 36, 39, 174, 65, 228, 100, 155, 147, 76, 164, 149, 153, 27, 120, 82, 184, 85>>>>,
    <<1, 97, <<202, 151, 129, 18, 202, 27, 189, 202, 250, 194, 49, 179, 154, 35, 220, 77, 167, 134, 239, 248, 20, 124, 78, 114, 185, 128, 119, 133, 175, 238, 72, 187>>>>,
    <<1, 158, <<53, 175, 45, 21, 235, 222, 77, 103, 178, 149, 105, 236, 25, 116, 158, 129, 60, 118, 240, 34, 134, 175, 197, 162, 169, 135, 28, 43, 251, 218, 171, 50>>>>,
    <<1, 219, <<183, 210, 82, 150, 231, 188, 106, 107, 246, 109, 160, 155, 28, 94, 210, 115, 217, 158, 58, 159, 198, 212, 62, 70, 204, 184, 179, 88, 250, 19, 212, 233>>>>,
    <<2, 97, <<251, 142, 32, 252, 46, 76, 63, 36, 140, 96, 195, 155, 214, 82, 243, 193, 52, 114, 152, 187, 151, 123, 139, 77, 89, 3, 184, 80, 85, 98, 6, 3>>>>,
    <<2, 158, <<221, 14, 209, 162, 23, 35, 253, 67, 21, 4, 76, 252, 219, 238, 135, 173, 194, 175, 134, 134, 119, 115, 103, 45, 11, 209, 233, 196, 110, 116, 61, 39>>>>,
    <<2, 219, <<132, 65, 149, 203, 39, 178, 136, 232, 29, 54, 175, 11, 151, 93, 186, 166, 237, 142, 141, 168, 28, 253, 177, 240, 142, 33, 253, 227, 58, 83, 79, 178>>>>,
    <<3, 97, <<186, 120, 22, 191, 143, 1, 207, 234, 65, 65, 64, 222, 93, 174, 34, 35, 176, 3, 97, 163, 150, 23, 122, 156, 180, 16, 255, 97, 242, 0, 21, 173>>>>,
    <<3, 158, <<144, 247, 148, 75, 28, 18, 89, 113, 27, 130, 70, 4, 52, 103, 191, 223, 125, 86, 149, 161, 84, 55, 121, 174, 169, 1, 24, 73, 108, 224, 184, 136>>>>,
    <<3, 219, <<115, 123, 11, 243, 46, 165, 250, 44, 218, 242, 12, 63, 13, 221, 130, 64, 245, 200, 87, 252, 51, 45, 29, 137, 32, 134, 210, 227, 92, 131, 190, 234>>>>,
    <<54, 97, <<39, 37, 151, 113, 61, 27, 209, 90, 95, 53, 137, 234, 134, 61, 53, 203, 175, 194, 237, 170, 134, 208, 9, 249, 157, 181, 7, 138, 86, 242, 151, 1>>>>,
    <<54, 158, <<78, 85, 221, 226, 36, 17, 98, 52, 119, 212, 114, 255, 166, 53, 14, 140, 112, 4, 153, 50, 131, 84, 0, 182, 110, 172, 88, 68, 224, 100, 23, 192>>>>,
    <<54, 219, <<137, 76, 22, 187, 118, 202, 86, 232, 25, 103, 34, 142, 69, 55, 74, 6, 112, 71, 212, 83, 9, 200, 56, 129, 227, 84, 230, 204, 178, 118, 107, 87>>>>,
    <<55, 97, <<100, 147, 132, 135, 244, 159, 114, 100, 166, 103, 169, 153, 194, 56, 168, 191, 120, 57, 15, 48, 107, 241, 164, 252, 151, 200, 17, 3, 86, 251, 89, 61>>>>,
    <<55, 158, <<142, 133, 161, 133, 156, 212, 65, 128, 227, 45, 157, 108, 42, 121, 178, 26, 107, 48, 132, 202, 44, 71, 158, 241, 243, 156, 41, 94, 137, 193, 87, 148>>>>,
    <<55, 219, <<126, 91, 206, 17, 84, 0, 7, 42, 161, 18, 204, 125, 178, 54, 201, 154, 63, 219, 212, 101, 62, 153, 87, 53, 78, 215, 171, 222, 248, 150, 156, 174>>>>,
    <<56, 97, <<22, 47, 216, 127, 219, 90, 33, 112, 207, 214, 194, 131, 180, 76, 140, 33, 91, 234, 198, 102, 54, 213, 209, 167, 183, 142, 31, 229, 70, 186, 11, 174>>>>,
    <<56, 158, <<222, 5, 16, 214, 162, 31, 189, 95, 41, 121, 64, 29, 52, 202, 157, 69, 120, 43, 176, 164, 149, 143, 121, 37, 13, 196, 83, 64, 95, 29, 85, 66>>>>,
    <<56, 219, <<179, 74, 248, 204, 195, 39, 165, 211, 163, 229, 69, 104, 233, 245, 131, 181, 65, 91, 22, 7, 234, 160, 99, 3, 10, 60, 63, 24, 77, 255, 192, 114>>>>,
    <<57, 97, <<134, 44, 125, 219, 207, 183, 113, 76, 210, 66, 155, 7, 80, 58, 229, 188, 121, 38, 208, 187, 105, 132, 68, 149, 191, 17, 246, 154, 33, 221, 151, 62>>>>,
    <<57, 158, <<83, 242, 3, 117, 46, 47, 12, 12, 137, 160, 181, 129, 178, 7, 127, 47, 17, 49, 237, 53, 44, 50, 232, 22, 36, 74, 127, 25, 136, 9, 121, 30>>>>,
    <<57, 219, <<35, 168, 208, 159, 109, 181, 203, 231, 116, 28, 8, 0, 188, 30, 86, 114, 187, 50, 134, 156, 120, 115, 12, 107, 216, 8, 176, 104, 179, 235, 160, 74>>>>,
    <<58, 97, <<23, 37, 228, 8, 94, 74, 152, 185, 125, 40, 150, 42, 190, 166, 15, 36, 116, 65, 164, 250, 90, 116, 209, 97, 6, 10, 150, 103, 169, 4, 73, 193>>>>,
    <<58, 158, <<45, 144, 156, 34, 125, 129, 176, 243, 254, 96, 134, 227, 93, 174, 27, 192, 230, 64, 133, 129, 11, 109, 67, 78, 192, 52, 60, 121, 210, 228, 48, 117>>>>,
    <<58, 219, <<74, 16, 125, 43, 137, 16, 214, 228, 7, 184, 13, 246, 106, 129, 128, 155, 128, 144, 245, 162, 32, 90, 140, 58, 217, 210, 93, 145, 144, 173, 194, 201>>>>,
    <<59, 97, <<198, 116, 213, 95, 87, 244, 100, 75, 169, 245, 107, 224, 3, 19, 181, 105, 34, 239, 158, 113, 61, 124, 62, 3, 165, 200, 165, 35, 130, 102, 91, 212>>>>,
    <<59, 158, <<135, 195, 179, 102, 245, 243, 102, 144, 169, 228, 161, 224, 37, 55, 169, 123, 40, 93, 15, 159, 53, 110, 9, 217, 20, 213, 92, 188, 187, 197, 23, 172>>>>,
    <<59, 219, <<189, 171, 29, 32, 163, 92, 150, 78, 190, 47, 141, 154, 230, 207, 9, 1, 111, 172, 254, 8, 125, 137, 237, 226, 191, 27, 140, 225, 118, 94, 155, 115>>>>,
    <<60, 97, <<237, 174, 135, 108, 237, 245, 21, 124, 223, 14, 108, 65, 183, 116, 105, 148, 91, 41, 247, 53, 143, 148, 72, 196, 8, 126, 12, 48, 99, 7, 200, 68>>>>,
    <<60, 158, <<118, 59, 166, 194, 5, 90, 59, 190, 17, 113, 96, 197, 10, 187, 118, 35, 148, 71, 109, 154, 35, 4, 184, 96, 94, 83, 106, 50, 129, 17, 108, 220>>>>,
    <<60, 219, <<235, 49, 237, 163, 149, 185, 203, 38, 26, 231, 153, 244, 81, 39, 47, 139, 93, 173, 155, 125, 126, 198, 146, 15, 63, 153, 9, 35, 83, 49, 201, 52>>>>,
    <<61, 97, <<13, 90, 131, 213, 90, 171, 170, 167, 23, 70, 15, 129, 193, 226, 179, 132, 128, 153, 172, 105, 85, 163, 230, 115, 36, 106, 34, 110, 187, 114, 45, 149>>>>,
    <<61, 158, <<74, 239, 147, 154, 80, 157, 144, 140, 101, 141, 97, 247, 212, 48, 236, 173, 240, 24, 164, 20, 194, 190, 164, 88, 33, 231, 45, 86, 71, 240, 10, 40>>>>,
    <<61, 219, <<200, 81, 141, 251, 52, 225, 36, 214, 79, 120, 137, 103, 48, 56, 54, 149, 57, 204, 203, 130, 24, 89, 51, 219, 137, 216, 248, 153, 161, 144, 235, 103>>>>,
    <<62, 97, <<51, 235, 228, 192, 209, 96, 125, 87, 150, 150, 197, 122, 86, 127, 100, 134, 233, 248, 247, 184, 74, 188, 240, 175, 166, 25, 186, 58, 85, 5, 139, 114>>>>,
    <<62, 158, <<222, 133, 185, 174, 132, 231, 206, 167, 153, 35, 72, 150, 82, 60, 23, 24, 179, 31, 19, 240, 121, 92, 44, 221, 183, 14, 200, 124, 2, 211, 240, 222>>>>,
    <<62, 219, <<87, 235, 76, 16, 182, 124, 28, 100, 228, 83, 153, 167, 111, 121, 100, 162, 153, 228, 83, 78, 213, 125, 213, 232, 224, 52, 35, 105, 152, 39, 12, 180>>>>,
    <<63, 97, <<142, 26, 184, 99, 213, 42, 243, 36, 250, 72, 100, 140, 206, 56, 167, 138, 92, 78, 165, 241, 88, 72, 120, 114, 54, 96, 251, 238, 72, 199, 248, 192>>>>,
    <<63, 158, <<130, 237, 242, 55, 67, 70, 89, 223, 173, 153, 237, 78, 40, 6, 24, 117, 121, 162, 10, 146, 50, 64, 247, 173, 94, 231, 4, 164, 143, 55, 20, 155>>>>,
    <<63, 219, <<67, 138, 62, 85, 123, 77, 27, 212, 208, 49, 210, 135, 108, 163, 149, 135, 184, 61, 252, 25, 173, 141, 196, 56, 224, 16, 9, 255, 40, 241, 123, 208>>>>,
    <<64, 97, <<192, 113, 251, 91, 149, 215, 86, 6, 22, 246, 60, 10, 144, 209, 212, 98, 185, 31, 28, 153, 42, 73, 203, 96, 220, 184, 92, 126, 7, 84, 14, 54>>>>,
    <<64, 158, <<66, 58, 16, 13, 224, 209, 134, 36, 230, 151, 91, 116, 13, 173, 35, 173, 73, 90, 108, 80, 131, 67, 9, 120, 206, 210, 96, 222, 191, 10, 129, 63>>>>,
    <<64, 219, <<84, 80, 59, 36, 232, 207, 68, 188, 194, 35, 92, 14, 43, 3, 112, 255, 137, 9, 39, 225, 25, 134, 191, 155, 191, 148, 16, 179, 172, 77, 137, 237>>>>,
    <<65, 97, <<2, 40, 33, 210, 31, 43, 196, 163, 222, 233, 129, 74, 137, 38, 1, 16, 97, 49, 130, 152, 13, 230, 170, 93, 59, 91, 47, 88, 230, 181, 61, 160>>>>,
    <<65, 158, <<11, 58, 131, 236, 75, 240, 194, 8, 141, 129, 199, 181, 63, 245, 110, 95, 21, 20, 0, 14, 178, 32, 241, 156, 213, 207, 190, 226, 210, 177, 146, 195>>>>,
    <<65, 219, <<194, 130, 136, 207, 84, 43, 15, 112, 189, 28, 16, 201, 110, 90, 62, 93, 249, 152, 72, 33, 240, 210, 199, 182, 241, 252, 207, 128, 87, 41, 139, 62>>>>,
    <<66, 97, <<170, 49, 63, 25, 173, 5, 135, 229, 173, 220, 2, 74, 53, 131, 10, 42, 54, 21, 90, 137, 127, 194, 44, 34, 243, 253, 157, 151, 130, 64, 65, 46>>>>,
    <<66, 158, <<140, 175, 158, 46, 169, 61, 174, 102, 204, 222, 192, 56, 13, 2, 186, 231, 222, 63, 78, 209, 148, 5, 71, 39, 2, 52, 4, 203, 192, 127, 2, 14>>>>,
    <<66, 219, <<26, 72, 70, 242, 127, 137, 20, 173, 216, 196, 41, 83, 37, 190, 222, 185, 87, 201, 195, 156, 115, 117, 116, 243, 67, 129, 48, 175, 144, 31, 9, 215>>>>,
    <<67, 97, <<164, 223, 113, 79, 12, 186, 168, 143, 81, 61, 204, 99, 181, 168, 46, 29, 231, 202, 150, 154, 249, 66, 97, 127, 166, 84, 208, 127, 219, 139, 169, 58>>>>,
    <<67, 158, <<118, 246, 92, 17, 140, 106, 9, 127, 219, 39, 127, 94, 138, 220, 42, 41, 6, 53, 211, 126, 128, 4, 102, 33, 228, 1, 107, 160, 220, 46, 104, 170>>>>,
    <<67, 219, <<125, 73, 131, 202, 51, 35, 100, 105, 14, 31, 77, 147, 210, 194, 73, 117, 181, 107, 227, 202, 123, 53, 107, 129, 212, 138, 32, 59, 34, 146, 48, 166>>>>,
    <<118, 97, <<5, 176, 113, 129, 193, 11, 178, 23, 165, 181, 156, 15, 11, 81, 181, 61, 143, 78, 15, 198, 28, 215, 193, 93, 174, 20, 21, 179, 36, 48, 216, 94>>>>,
    <<118, 158, <<133, 241, 179, 138, 89, 25, 233, 43, 133, 153, 157, 245, 157, 195, 69, 237, 193, 197, 202, 67, 176, 87, 88, 11, 185, 9, 203, 9, 236, 78, 202, 228>>>>,
    <<118, 219, <<27, 217, 71, 102, 235, 106, 215, 193, 161, 28, 194, 17, 85, 249, 140, 150, 29, 143, 118, 176, 191, 91, 50, 189, 152, 132, 77, 131, 152, 67, 162, 222>>>>,
    <<119, 97, <<81, 179, 49, 4, 127, 134, 195, 179, 185, 1, 111, 206, 52, 25, 149, 131, 37, 48, 145, 226, 238, 211, 15, 77, 140, 104, 123, 7, 57, 183, 33, 114>>>>,
    <<119, 158, <<93, 88, 215, 72, 117, 203, 219, 174, 73, 65, 34, 182, 79, 61, 200, 255, 155, 10, 11, 49, 91, 124, 66, 93, 2, 234, 109, 98, 115, 116, 218, 37>>>>,
    <<119, 219, <<102, 208, 5, 241, 221, 121, 119, 122, 128, 220, 42, 48, 221, 1, 19, 171, 198, 199, 69, 254, 26, 191, 141, 243, 122, 183, 1, 250, 234, 1, 28, 20>>>>,
    <<120, 97, <<16, 239, 36, 254, 83, 148, 0, 219, 139, 160, 47, 236, 72, 155, 204, 235, 35, 167, 250, 42, 120, 19, 150, 160, 46, 253, 38, 124, 235, 215, 129, 49>>>>,
    <<120, 158, <<234, 27, 236, 25, 239, 161, 231, 243, 174, 197, 45, 75, 211, 92, 43, 134, 49, 36, 69, 75, 106, 198, 106, 94, 83, 252, 231, 24, 166, 92, 164, 14>>>>,
    <<120, 219, <<58, 96, 109, 178, 145, 91, 32, 113, 195, 105, 242, 86, 115, 129, 164, 127, 106, 17, 162, 145, 194, 116, 195, 35, 64, 235, 180, 139, 61, 81, 96, 140>>>>,
    <<121, 97, <<195, 160, 17, 246, 74, 45, 16, 70, 98, 39, 147, 156, 243, 206, 156, 4, 227, 61, 120, 146, 245, 165, 67, 240, 135, 174, 166, 167, 109, 189, 15, 0>>>>,
    <<121, 158, <<143, 143, 159, 136, 100, 216, 14, 119, 94, 251, 24, 26, 113, 95, 83, 63, 241, 70, 142, 220, 99, 115, 243, 19, 162, 188, 212, 137, 221, 186, 77, 118>>>>,
    <<121, 219, <<52, 146, 61, 237, 113, 1, 138, 171, 109, 144, 137, 99, 107, 36, 163, 196, 133, 62, 114, 85, 66, 33, 124, 213, 213, 140, 106, 233, 42, 68, 187, 127>>>>,
    <<122, 97, <<44, 88, 9, 86, 118, 55, 184, 164, 60, 65, 3, 105, 43, 28, 122, 176, 209, 13, 112, 172, 138, 73, 92, 187, 195, 161, 126, 118, 1, 0, 146, 217>>>>,
    <<122, 158, <<86, 145, 174, 204, 193, 159, 215, 185, 42, 202, 212, 206, 70, 145, 95, 67, 190, 41, 196, 41, 160, 110, 89, 127, 227, 233, 35, 234, 234, 65, 79, 48>>>>,
    <<122, 219, <<85, 220, 45, 227, 57, 9, 112, 25, 33, 59, 63, 56, 144, 55, 66, 69, 198, 36, 183, 50, 225, 243, 156, 89, 193, 59, 172, 206, 65, 241, 70, 197>>>>,
    <<123, 97, <<219, 69, 110, 104, 83, 113, 241, 119, 235, 95, 64, 61, 144, 213, 13, 198, 190, 210, 178, 144, 199, 80, 231, 41, 17, 38, 79, 101, 44, 53, 188, 159>>>>,
    <<123, 158, <<47, 174, 169, 70, 177, 183, 67, 134, 143, 21, 39, 32, 123, 197, 99, 27, 125, 206, 4, 14, 201, 108, 148, 59, 110, 38, 110, 241, 123, 183, 21, 73>>>>,
    <<123, 219, <<214, 101, 255, 247, 160, 212, 219, 65, 71, 233, 176, 26, 186, 26, 189, 7, 100, 60, 72, 226, 199, 143, 53, 219, 1, 236, 152, 131, 135, 16, 2, 87>>>>,
    <<124, 97, <<183, 147, 27, 140, 119, 174, 252, 41, 48, 72, 132, 81, 114, 235, 19, 181, 205, 125, 249, 134, 32, 102, 213, 102, 236, 51, 95, 136, 178, 83, 10, 207>>>>,
    <<124, 158, <<36, 211, 146, 125, 103, 170, 113, 248, 233, 197, 134, 64, 111, 123, 63, 159, 193, 249, 194, 2, 93, 57, 232, 8, 170, 6, 195, 26, 11, 209, 183, 36>>>>,
    <<124, 219, <<163, 43, 228, 207, 122, 252, 234, 25, 213, 249, 53, 203, 94, 222, 105, 217, 113, 42, 144, 245, 162, 223, 200, 75, 170, 215, 86, 227, 240, 201, 227, 85>>>>,
    <<125, 97, <<107, 136, 177, 52, 158, 93, 218, 200, 160, 46, 26, 56, 146, 225, 212, 75, 206, 196, 14, 122, 215, 196, 211, 235, 58, 136, 80, 246, 127, 46, 116, 213>>>>,
    <<125, 158, <<60, 14, 137, 222, 20, 225, 119, 179, 69, 179, 179, 113, 185, 233, 151, 202, 3, 48, 36, 217, 242, 102, 230, 186, 14, 33, 152, 247, 244, 120, 35, 59>>>>,
    <<125, 219, <<55, 151, 10, 72, 211, 160, 213, 87, 29, 40, 180, 185, 142, 124, 41, 8, 84, 149, 90, 251, 237, 137, 168, 119, 168, 233, 219, 221, 124, 197, 31, 215>>>>,
    <<126, 97, <<133, 135, 94, 240, 191, 197, 72, 145, 120, 95, 245, 134, 77, 142, 36, 30, 66, 75, 98, 142, 189, 65, 222, 96, 236, 62, 58, 117, 171, 63, 159, 211>>>>,
    <<126, 158, <<15, 166, 17, 176, 189, 153, 54, 206, 208, 194, 92, 242, 104, 177, 59, 184, 199, 205, 223, 115, 162, 108, 168, 88, 200, 4, 198, 62, 150, 244, 16, 105>>>>,
    <<126, 219, <<93, 64, 235, 91, 68, 119, 36, 37, 100, 249, 202, 127, 87, 100, 7, 1, 121, 71, 115, 87, 138, 40, 217, 252, 29, 83, 156, 83, 17, 239, 172, 161>>>>,
    <<127, 97, <<54, 179, 243, 227, 90, 191, 215, 180, 202, 223, 229, 11, 135, 21, 79, 69, 69, 177, 29, 107, 199, 218, 202, 82, 82, 242, 142, 6, 51, 235, 193, 90>>>>,
    <<127, 158, <<172, 32, 81, 36, 137, 172, 137, 105, 152, 129, 158, 43, 0, 154, 132, 7, 71, 145, 215, 166, 126, 117, 215, 117, 27, 83, 153, 198, 231, 60, 196, 122>>>>,
    <<127, 219, <<127, 101, 53, 26, 211, 125, 101, 105, 91, 88, 84, 169, 160, 151, 67, 62, 240, 67, 103, 194, 66, 240, 54, 94, 235, 55, 0, 51, 56, 126, 34, 254>>>>,
    <<128, 97, <<70, 227, 3, 168, 50, 23, 245, 160, 195, 96, 92, 191, 251, 253, 147, 1, 118, 76, 24, 251, 191, 19, 164, 34, 159, 181, 129, 88, 191, 206, 195, 94>>>>,
    <<128, 158, <<178, 234, 25, 27, 71, 190, 26, 164, 117, 126, 46, 217, 67, 60, 20, 224, 238, 94, 104, 24, 224, 161, 6, 25, 51, 167, 193, 184, 91, 183, 192, 137>>>>,
    <<128, 219, <<215, 216, 226, 240, 85, 122, 210, 196, 229, 14, 45, 1, 216, 204, 233, 136, 5, 194, 145, 136, 118, 89, 220, 0, 198, 160, 209, 106, 189, 246, 58, 204>>>>,
    <<129, 97, <<205, 35, 77, 81, 187, 149, 124, 228, 17, 196, 255, 188, 1, 18, 140, 85, 183, 143, 34, 143, 91, 90, 250, 195, 224, 224, 88, 72, 221, 46, 148, 114>>>>,
    <<129, 158, <<59, 165, 23, 56, 182, 225, 56, 205, 4, 25, 27, 9, 120, 71, 215, 189, 80, 137, 67, 179, 252, 37, 136, 165, 215, 85, 204, 198, 182, 91, 236, 124>>>>,
    <<129, 219, <<87, 206, 42, 59, 13, 75, 184, 128, 12, 84, 140, 46, 25, 175, 68, 54, 151, 100, 252, 180, 86, 43, 114, 127, 49, 205, 40, 205, 60, 229, 82, 202>>>>
  }


\* The standard SHA-256 digest of message m.
RefDigest(m) ==
    (CHOOSE v \in SHA256Vectors : Msg(v[1], v[2]) = m)[3]

\* The argument of caller p's call, as the caller passed it.
Input(p) == SubSeq(orig, 1, call[p].n)

-----------------------------------------------------------------------------
(* C1: for every byte sequence d, Sha2_256(d) returns exactly 32 bytes     *)
(* that equal the standard SHA-256 digest of d, for both implementations   *)
(* (the word-array one and the Add512 one); Sha2_256("abc") is             *)
(* ba7816bf 8f01cfea 414140de 5dae2223 b00361a3 96177a9c b410ff61 f20015ad.*)
C1_DigestIsSha256 ==
    \A p \in Procs :
        call[p].pc = "done" =>
            /\ Len(call[p].out) = 32
            /\ call[p].out = RefDigest(Input(p))
            /\ Input(p) = <<97, 98, 99>> =>
                 call[p].out =
                   <<186, 120, 22, 191, 143, 1, 207, 234, 65, 65, 64, 222,
                     93, 174, 34, 35, 176, 3, 97, 163, 150, 23, 122, 156,
                     180, 16, 255, 97, 242, 0, 21, 173>>

\* The word-array implementation has returned the digest of "abc".
C1_Witness ==
    /\ call[1].pc = "done"
    /\ call[1].impl = "words"
    /\ Input(1) = <<97, 98, 99>>
    /\ call[1].out[1] = 186

-----------------------------------------------------------------------------
(* C2: for an input of n bytes pad512 returns a buffer whose length L is   *)
(* the smallest multiple of 64 with L >= n + 9, whose first n bytes are    *)
(* the input, whose byte n is 0x80, whose bytes n+1 .. L-9 are zero and    *)
(* whose last 8 bytes are 8*n big-endian; Sha2_256 then runs the           *)
(* compression L/64 times, on chunks 0, 1, ..., L/64-1 in that order.      *)

Padded(c) == c.pc \in {"conv", "loop", "done"}

\* The 8-byte big-endian value at the end of b, for values below 2^31.
TailValue(b) ==
    LET L == Len(b)
    IN  IF b[L - 7] # 0 \/ b[L - 6] # 0 \/ b[L - 5] # 0 \/ b[L - 4] # 0
           \/ b[L - 3] >= 128
        THEN -1
        ELSE ((b[L - 3] * 256 + b[L - 2]) * 256 + b[L - 1]) * 256 + b[L]

C2_PadAndChunkOrder ==
    \A p \in Procs :
        LET c == call[p]
            b == View(c)
            L == Len(b)
        IN  Padded(c) =>
              /\ L % 64 = 0
              /\ L >= c.n + 9
              /\ L - 64 < c.n + 9
              /\ SubSeq(b, 1, c.n) = Input(p)
              /\ b[c.n + 1] = 128
              /\ \A q \in (c.n + 1)..(L - 9) : b[q + 1] = 0
              /\ TailValue(b) = 8 * c.n
              /\ c.chunks = [q \in 1..c.i |-> q - 1]
              /\ c.pc = "done" => c.i = L \div 64

\* A 120-byte input (8 bytes of room in its second block) has been padded
\* into three chunks and all three were compressed, in order.
C2_Witness ==
    /\ call[1].pc = "done"
    /\ call[1].n = 120
    /\ Len(View(call[1])) = 192
    /\ call[1].chunks = <<0, 1, 2>>

-----------------------------------------------------------------------------
(* C3: Sha2_256 never mutates its input buffer: for a slice of any length  *)
(* and capacity, every byte of the caller's backing storage, inside the    *)
(* slice's length and beyond it, is the same after the call as before.     *)
C3_InputUnchanged ==
    \A p \in Procs : call[p].pc = "done" => arr = orig

-----------------------------------------------------------------------------
(* base58: Encode and Decode.                                              *)

\* Encode inputs have 0..B58MaxLen bytes.
B58MaxLen == 4

\* The byte values of Encode inputs: zero, the smallest and the largest
\* values, and the values around the radix.
ByteVals == {0, 1, 57, 58, 255}

chars ==
  <<
    "1", "2", "3", "4", "5", "6", "7", "8", "9", "A", "B", "C",
    "D", "E", "F", "G", "H", "J", "K", "L", "M", "N", "P", "Q",
    "R", "S", "T", "U", "V", "W", "X", "Y", "Z", "a", "b", "c",
    "d", "e", "f", "g", "h", "i", "j", "k", "m", "n", "o", "p",
    "q", "r", "s", "t", "u", "v", "w", "x", "y", "z"
  >>

nChars == Len(chars)

\* A mutant of BufSize: the "+ 1" is forgotten.
BufSize_noplus1(m) == (m * 137) \div 100

\* len(buf) for m bytes after the leading zeroes: ((m * 137) / 100) + 1.
BufSize(m) == ((m * 137) \div 100) + 1

\* The number of leading zero bytes of data ("for ; zeroes < len(data); ...").
RECURSIVE LeadingZeroes(_, _)
LeadingZeroes(data, z) ==
    IF z < Len(data) /\ data[z + 1] = 0 THEN LeadingZeroes(data, z + 1) ELSE z

\* A mutant of InnerLoop: the loop runs only while carry != 0.
RECURSIVE InnerLoop_carryonly(_, _, _, _)
InnerLoop_carryonly(b, carry, j, high) ==
    IF carry = 0
    THEN [buf |-> b, j |-> j, carry |-> carry, brk |-> FALSE]
    ELSE LET c1 == carry + b[j + 1] * 256
             nb == [b EXCEPT ![j + 1] = (c1 % nChars) % 256]
             c2 == c1 \div nChars
         IN  IF j = 0
             THEN [buf |-> nb, j |-> j, carry |-> c2, brk |-> TRUE]
             ELSE InnerLoop_carryonly(nb, c2, j - 1, high)

\* for j = len(buf) - 1; (j > high) || (carry != 0); j-- { ... }, entered
\* with the loop variable at j: the buffer, the final j, the carry left and
\* whether the loop was left by the break at j == 0.
RECURSIVE InnerLoop(_, _, _, _)
InnerLoop(b, carry, j, high) ==
    IF ~((j > high) \/ (carry # 0))
    THEN [buf |-> b, j |-> j, carry |-> carry, brk |-> FALSE]
    ELSE LET c1 == carry + b[j + 1] * 256
             nb == [b EXCEPT ![j + 1] = (c1 % nChars) % 256]
             c2 == c1 \div nChars
         IN  IF j = 0
             THEN [buf |-> nb, j |-> j, carry |-> c2, brk |-> TRUE]
             ELSE InnerLoop(nb, c2, j - 1, high)

\* The index of the first nonzero cell of buf, or len(buf).
RECURSIVE FirstNonZero(_, _)
FirstNonZero(b, i) ==
    IF i < Len(b) /\ b[i + 1] = 0 THEN FirstNonZero(b, i + 1) ELSE i

\* The string built from the trimmed buffer: a '1' per leading zero byte,
\* then chars[buf[i]] for each cell.
Encoded(zeroes, b) ==
    [i \in 1..(zeroes + Len(b)) |->
        IF i <= zeroes THEN "1" ELSE chars[b[i - zeroes] + 1]]

\* Encode(arr[0:n]) is called.
EncEntry(n) ==
    [pc |-> "zeroes", n |-> n, zeroes |-> 0, buf |-> <<>>, high |-> 0, i |-> 0,
     j |-> 0, carry |-> 0, brk |-> FALSE, out |-> <<>>, rd |-> {}]

\* Encode: the leading zero bytes are counted and buf is allocated.
EncCount ==
    LET data == SubSeq(arr, 1, enc.n)
        z == LeadingZeroes(data, 0)
        size == BufSize(enc.n - z)
    IN  /\ enc.pc = "zeroes"
        /\ enc' = [enc EXCEPT !.pc = "loop", !.zeroes = z, !.buf = Zeros(size),
                              !.high = size - 1, !.i = z,
                              !.rd = 1..(IF z < enc.n THEN z + 1 ELSE z)]
        /\ UNCHANGED <<arr, orig, call, dec, dg>>

\* Encode: one iteration of "for i := zeroes; i < len(data); i++".
EncByte ==
    LET r == InnerLoop(enc.buf, arr[enc.i + 1], Len(enc.buf) - 1, enc.high)
    IN  /\ enc.pc = "loop"
        /\ enc.i < enc.n
        /\ enc' = [enc EXCEPT !.buf = r.buf, !.high = r.j, !.j = r.j,
                              !.carry = r.carry, !.brk = r.brk,
                              !.i = enc.i + 1, !.rd = @ \cup {enc.i + 1}]
        /\ UNCHANGED <<arr, orig, call, dec, dg>>

\* Encode: the loop ends, buf is trimmed and the string is built.
EncFinish ==
    LET first == FirstNonZero(enc.buf, 0)
        trimmed == SubSeq(enc.buf, first + 1, Len(enc.buf))
    IN  /\ enc.pc = "loop"
        /\ enc.i >= enc.n
        /\ enc' = [enc EXCEPT !.pc = "done", !.out = Encoded(enc.zeroes, trimmed)]
        /\ UNCHANGED <<arr, orig, call, dec, dg>>

\* Decode(s): an error ("no input") for the empty string; nil, nil otherwise.
Decode(s) ==
    IF Len(s) = 0
    THEN [err |-> TRUE, out |-> <<>>]
    ELSE [err |-> FALSE, out |-> <<>>]

\* Decode is called on the string Encode returned.
DecodeCall ==
    /\ enc.pc = "done"
    /\ dec.pc = "idle"
    /\ dec' = [pc |-> "done", err |-> Decode(enc.out).err, out |-> Decode(enc.out).out]
    /\ UNCHANGED <<arr, orig, call, enc, dg>>

\* All byte sequences of length 0..len over ByteVals.
RECURSIVE ByteSeqs(_)
ByteSeqs(len) ==
    IF len = 0 THEN {<<>>}
    ELSE LET shorter == ByteSeqs(len - 1)
         IN  shorter \cup {Append(s, b) : s \in {t \in shorter : Len(t) = len - 1},
                                          b \in ByteVals}

\* A caller encodes a byte sequence and decodes the string it got.
InitB58 ==
    \E d \in ByteSeqs(B58MaxLen) :
        /\ arr = d
        /\ orig = d
        /\ call = [p \in Procs |-> ShaIdle]
        /\ enc = EncEntry(Len(d))
        /\ dec = DecIdle
        /\ dg = DgIdle

NextB58 ==
    \/ EncCount
    \/ EncByte
    \/ EncFinish
    \/ DecodeCall

SpecB58 == InitB58 /\ [][NextB58]_vars

-----------------------------------------------------------------------------
(* Base58: the reference encoding, by repeated division of the big-endian  *)
(* number by 58.                                                           *)

Base58Alphabet ==
  <<
    "1", "2", "3", "4", "5", "6", "7", "8", "9", "A", "B", "C",
    "D", "E", "F", "G", "H", "J", "K", "L", "M", "N", "P", "Q",
    "R", "S", "T", "U", "V", "W", "X", "Y", "Z", "a", "b", "c",
    "d", "e", "f", "g", "h", "i", "j", "k", "m", "n", "o", "p",
    "q", "r", "s", "t", "u", "v", "w", "x", "y", "z"
  >>

\* The quotient (base-256 digits, same length) and remainder of num by 58.
RECURSIVE DivMod58(_, _, _, _)
DivMod58(num, i, rem, quot) ==
    IF i > Len(num) THEN [q |-> quot, r |-> rem]
    ELSE LET cur == rem * 256 + num[i]
         IN  DivMod58(num, i + 1, cur % 58, Append(quot, cur \div 58))

IsZero(num) == \A i \in 1..Len(num) : num[i] = 0

\* The base-58 digits of num, most significant first, none for zero.
RECURSIVE Digits58(_)
Digits58(num) ==
    IF IsZero(num) THEN <<>>
    ELSE LET dm == DivMod58(num, 1, 0, <<>>)
         IN  Append(Digits58(dm.q), dm.r)

RECURSIVE ZeroPrefix(_)
ZeroPrefix(d) == IF d # <<>> /\ d[1] = 0 THEN 1 + ZeroPrefix(Tail(d)) ELSE 0

RefEncode(d) ==
    LET z == ZeroPrefix(d)
        digits == Digits58(SubSeq(d, z + 1, Len(d)))
    IN  [i \in 1..z |-> "1"] \o [i \in 1..Len(digits) |-> Base58Alphabet[digits[i] + 1]]

\* The argument of the Encode call, as the caller passed it.
EncInput == SubSeq(orig, 1, enc.n)

-----------------------------------------------------------------------------
(* C5: for every byte sequence d with z leading zero bytes, Encode(d) is   *)
(* z '1' characters followed by the base-58 digits, most significant       *)
(* first and without a leading zero digit, of the big-endian integer of    *)
(* the remaining bytes, mapped through the alphabet 123456789ABC...xyz;    *)
(* Encode([]) = "", Encode([0]) = "1", Encode([0,0,0]) = "111" and         *)
(* Encode([0,1]) = "12".                                                   *)
C5_EncodeIsBase58 ==
    enc.pc = "done" =>
        /\ enc.out = RefEncode(EncInput)
        /\ EncInput = <<>> => enc.out = <<>>
        /\ EncInput = <<0>> => enc.out = <<"1">>
        /\ EncInput = <<0, 0, 0>> => enc.out = <<"1", "1", "1">>
        /\ EncInput = <<0, 1>> => enc.out = <<"1", "2">>

\* Encode has returned for an input with a leading zero byte and a
\* multi-digit number: [0, 255, 255] encodes to "1LUv".
C5_Witness ==
    /\ enc.pc = "done"
    /\ EncInput = <<0, 255, 255>>
    /\ enc.out = <<"1", "L", "U", "v">>

-----------------------------------------------------------------------------
(* C6: Base58 round trip: for every byte sequence d, Decode(Encode(d))     *)
(* returns exactly d with no error, leading zero bytes included.           *)
C6_RoundTrip ==
    dec.pc = "done" => (~dec.err /\ dec.out = EncInput)

-----------------------------------------------------------------------------
(* C9: Decode("") fails with a non-nil error and no bytes; and Decode      *)
(* never returns a nil error together with a result that differs from the  *)
(* bytes its input string encodes.                                         *)
C9_DecodeFailsOrIsRight ==
    dec.pc = "done" =>
        /\ enc.out = <<>> => (dec.err /\ dec.out = <<>>)
        /\ ~dec.err => dec.out = EncInput

-----------------------------------------------------------------------------
(* C10: the Encode digit buffer of floor((N - zeroes) * 137 / 100) + 1     *)
(* cells always suffices: whenever the inner carry loop stops at index 0   *)
(* the carry left is 0, and at the start of processing each input byte     *)
(* every buffer cell at an index <= high is zero.                          *)
C10_BufferSuffices ==
    /\ (enc.pc = "loop" /\ enc.i > enc.zeroes /\ enc.j = 0) => enc.carry = 0
    /\ enc.brk => enc.carry = 0
    /\ (enc.pc = "loop" /\ enc.i < enc.n) =>
          \A q \in 0..enc.high : enc.buf[q + 1] = 0

\* The inner loop has been left by the break at index 0, with the most
\* significant cell in use, on a three-byte number.
C10_Witness ==
    /\ enc.pc = "loop"
    /\ enc.brk
    /\ enc.buf[1] # 0
    /\ enc.n - enc.zeroes = 3

-----------------------------------------------------------------------------
(* sha2: Hash256 from a hex string, and its serialization; block.Hdr.      *)

\* The digests used are the patterns 0..MaxX.
MaxX == 2

HexLower == <<"0", "1", "2", "3", "4", "5", "6", "7", "8", "9",
              "a", "b", "c", "d", "e", "f">>

HexUpper == <<"0", "1", "2", "3", "4", "5", "6", "7", "8", "9",
              "A", "B", "C", "D", "E", "F">>

\* encoding/hex's reverseHexTable: the value of hex digit ch, 255 for any
\* other character.
fromHexChar(ch) ==
    IF \E v \in 1..16 : HexLower[v] = ch
    THEN (CHOOSE v \in 1..16 : HexLower[v] = ch) - 1
    ELSE IF \E v \in 1..16 : HexUpper[v] = ch
    THEN (CHOOSE v \in 1..16 : HexUpper[v] = ch) - 1
    ELSE 255

\* encoding/hex.Decode's loop "for ; j < len(src); j += 2" entered at j
\* and its checks after the loop: an invalid byte in a pair is an error;
\* an odd length is an error (the invalid byte error if the last character
\* is no hex digit, ErrLength otherwise).
RECURSIVE HexDecode(_, _, _)
HexDecode(s, j, acc) ==
    IF j < Len(s)
    THEN LET a == fromHexChar(s[j - 1 + 1])
             b == fromHexChar(s[j + 1])
         IN  IF a > 15 THEN [err |-> "invalid byte", x |-> acc]
             ELSE IF b > 15 THEN [err |-> "invalid byte", x |-> acc]
             ELSE LET t == Append(acc, a * 16 + b)
                  IN  IF t = t THEN HexDecode(s, j + 2, t) ELSE [err |-> "nil", x |-> t]
    ELSE IF Len(s) % 2 = 1
    THEN IF fromHexChar(s[j - 1 + 1]) > 15
         THEN [err |-> "invalid byte", x |-> acc]
         ELSE [err |-> "odd length", x |-> acc]
    ELSE [err |-> "nil", x |-> acc]

\* hex.DecodeString(s)
HexDecodeString(s) == HexDecode(s, 1, <<>>)

\* var out Hash256
ZeroHash == [i \in 1..8 |-> <<0, 0>>]

\* A mutant of FromString: the check len(x) != Size256 is left out.
FromString_nolencheck(s) ==
    LET r == HexDecodeString(s)
    IN  IF r.err # "nil" THEN [h |-> ZeroHash, err |-> TRUE]
        ELSE [h |-> Conv8to32(ZeroHash, r.x).dst, err |-> FALSE]

\* FromString(s): the zero Hash256 and an error when s is no hex string or
\* does not decode to Size256 bytes; else the words of the bytes.
FromString(s) ==
    LET r == HexDecodeString(s)
    IN  IF r.err # "nil" THEN [h |-> ZeroHash, err |-> TRUE]
        ELSE IF Len(r.x) # Size256 THEN [h |-> ZeroHash, err |-> TRUE]
        ELSE [h |-> Conv8to32(ZeroHash, r.x).dst, err |-> FALSE]

\* binary.LittleEndian.PutUint32: the four bytes of v, least significant
\* first.
PutUint32LE(v) == <<v[2] % 256, v[2] \div 256, v[1] % 256, v[1] \div 256>>

\* Hdr.Bytes: the 80-byte record; Prev and Merkle go through Hash256.Copy
\* into x[4:36] and x[36:68].
HdrBytes(hdr) ==
    LET x == Zeros(80)
        prev == Copy(hdr.Prev, SubSeq(x, 5, 36))
        merkle == Copy(hdr.Merkle, SubSeq(x, 37, 68))
    IN  [panic |-> prev.panic \/ merkle.panic,
         x |-> PutUint32LE(hdr.Version) \o prev.dst \o merkle.dst
               \o PutUint32LE(hdr.Time) \o PutUint32LE(hdr.Target)
               \o PutUint32LE(hdr.Nonce)]

\* block.New(prev, merkle, version, time, target, nonce)
New(prev, merkle, version, time, target, nonce) ==
    [Version |-> version, Prev |-> prev, Merkle |-> merkle,
     Time |-> time, Target |-> target, Nonce |-> nonce]

\* The workbench: s, the string given to FromString; h and err, what it
\* returned; out, what h.Bytes() returned; dst0 and dst, the destination
\* of h.Copy before and after, and panicked, whether Copy panicked; w0, w
\* and wpanic, the same for util.Conv8to32(w, out); b0, b and bpanic, the
\* same for util.Conv32to8(b, h); hdr, what Hdr.Bytes returned.
DgEntry(s) ==
    [pc |-> "start", s |-> s, h |-> ZeroHash, err |-> FALSE, out |-> <<>>,
     dst0 |-> <<>>, dst |-> <<>>, panicked |-> FALSE,
     w0 |-> <<>>, w |-> <<>>, wpanic |-> FALSE,
     b0 |-> <<>>, b |-> <<>>, bpanic |-> FALSE, hdr |-> <<>>]

FromStringCall ==
    /\ dg.pc = "start"
    /\ dg' = [dg EXCEPT !.pc = "parsed", !.h = FromString(dg.s).h,
                        !.err = FromString(dg.s).err]
    /\ UNCHANGED <<arr, orig, call, enc, dec>>

BytesCall ==
    /\ dg.pc = "parsed"
    /\ ~dg.err
    /\ dg' = [dg EXCEPT !.pc = "bytes", !.out = Bytes(dg.h)]
    /\ UNCHANGED <<arr, orig, call, enc, dec>>

\* The lengths of the destinations handed to Copy and Conv32to8.
DstLens == {0, 31, 32, 33, 64}

\* The lengths of the destinations handed to Conv8to32.
WordLens == {0, 7, 8, 9}

\* h.Copy(dst) on a destination of len bytes 0xAA.
CopyCall ==
    /\ dg.pc = "bytes"
    /\ \E len \in DstLens :
          LET d0 == [i \in 1..len |-> 170]
              r == Copy(dg.h, d0)
          IN  dg' = [dg EXCEPT !.pc = "copied", !.dst0 = d0, !.dst = r.dst,
                               !.panicked = r.panic]
    /\ UNCHANGED <<arr, orig, call, enc, dec>>

\* util.Conv8to32(w, out) on a destination of len words 0xAAAAAAAA.
Conv8to32Call ==
    /\ dg.pc = "copied"
    /\ \E len \in WordLens :
          LET d0 == [i \in 1..len |-> <<43690, 43690>>]
              r == Conv8to32(d0, dg.out)
          IN  dg' = [dg EXCEPT !.pc = "conv8", !.w0 = d0, !.w = r.dst,
                               !.wpanic = r.panic]
    /\ UNCHANGED <<arr, orig, call, enc, dec>>

\* util.Conv32to8(b, h[:]) on a destination of len bytes 0xAA.
Conv32to8Call ==
    /\ dg.pc = "conv8"
    /\ \E len \in DstLens :
          LET d0 == [i \in 1..len |-> 170]
              r == Conv32to8(d0, dg.h)
          IN  dg' = [dg EXCEPT !.pc = "conv32", !.b0 = d0, !.b = r.dst,
                               !.bpanic = r.panic]
    /\ UNCHANGED <<arr, orig, call, enc, dec>>

\* block.New(&h, &h, 1, time, target, nonce).Bytes(), with the numbers of
\* main's mine().
HdrBytesCall ==
    /\ dg.pc = "conv32"
    /\ dg' = [dg EXCEPT !.pc = "hdr",
                        !.hdr = HdrBytes(New(dg.h, dg.h, <<0, 1>>, <<19927, 62919>>,
                                             <<6724, 47602>>, <<38214, 41282>>)).x]
    /\ UNCHANGED <<arr, orig, call, enc, dec>>

\* Digest pattern j as 32 bytes: all 0x00, all 0xFF, then ramps.
XBytes(j) == [i \in 1..32 |-> (j * 255 + (j \div 2) * 37 * (i - 1)) % 256]

XInputs == {XBytes(j) : j \in 0..MaxX}

\* The hex string of x in lower case, in upper case, or alternating.
HexString(x, case) ==
    [i \in 1..(2 * Len(x)) |->
        LET byte == x[((i - 1) \div 2) + 1]
            v == IF i % 2 = 1 THEN byte \div 16 ELSE byte % 16
        IN  IF case = "lower" \/ (case = "mixed" /\ i % 3 = 0)
            THEN HexLower[v + 1] ELSE HexUpper[v + 1]]

ValidStrings == {HexString(x, case) : x \in XInputs, case \in {"lower", "upper", "mixed"}}

\* Strings of other lengths: prefixes, and extensions by hex digits.
WrongLengths ==
    {SubSeq(s \o s, 1, len) : s \in ValidStrings, len \in {0, 1, 2, 62, 63, 65, 66}}

\* Strings of 64 characters one of which is no hex digit.
WrongChars ==
    {[s EXCEPT ![pos] = ch] : s \in ValidStrings, pos \in {1, 2, 33, 63, 64},
                              ch \in {"g", "G", " ", "x", "-"}}

\* Strings that are wrong in both ways.
WrongBoth ==
    {[s EXCEPT ![pos] = ch] : s \in {t \in WrongLengths : Len(t) > 60}, pos \in {1, 2, 61},
                              ch \in {"g", " "}}

HexInputs == ValidStrings \cup WrongLengths \cup WrongChars \cup WrongBoth

InitDigest ==
    \E s \in HexInputs :
        /\ arr = <<>>
        /\ orig = <<>>
        /\ call = [p \in Procs |-> ShaIdle]
        /\ enc = EncIdle
        /\ dec = DecIdle
        /\ dg = DgEntry(s)

NextDigest ==
    \/ FromStringCall
    \/ BytesCall
    \/ CopyCall
    \/ Conv8to32Call
    \/ Conv32to8Call
    \/ HdrBytesCall

SpecDigest == InitDigest /\ [][NextDigest]_vars

-----------------------------------------------------------------------------
(* C7: FromString(s) returns an error, together with the all-zero          *)
(* Hash256, whenever s is not valid hexadecimal or does not decode to      *)
(* exactly 32 bytes (any length other than 64 hex characters, or any       *)
(* non-hex character), and returns no error for every string of exactly    *)
(* 64 hex characters in either letter case.                                *)

HexDigits ==
    {"0", "1", "2", "3", "4", "5", "6", "7", "8", "9", "a", "b", "c", "d", "e", "f",
     "A", "B", "C", "D", "E", "F"}

IsHex64(s) == Len(s) = 64 /\ \A i \in 1..Len(s) : s[i] \in HexDigits

C7_FromStringErrors ==
    dg.pc = "parsed" =>
        /\ ~IsHex64(dg.s) => (dg.err /\ dg.h = [i \in 1..8 |-> <<0, 0>>])
        /\ IsHex64(dg.s) => ~dg.err

\* FromString has refused a string of 62 hex digits.
C7_Witness ==
    /\ dg.pc = "parsed"
    /\ Len(dg.s) = 62
    /\ \A i \in 1..62 : dg.s[i] \in HexDigits
    /\ dg.err

-----------------------------------------------------------------------------
(* C8: digest serialization is big-endian per word and round-trips: for    *)
(* every Hash256 h, Bytes() and Copy(dst) produce 32 bytes where bytes     *)
(* 4i..4i+3 are word i of h most significant byte first, Conv8to32 of      *)
(* those bytes gives back h, and for every 32-byte x,                      *)
(* FromString(hex(x)).Bytes() equals x; Copy and the Conv helpers panic,   *)
(* writing nothing, when the destination length is not exactly 4 bytes     *)
(* per word (32 for Copy).                                                 *)

\* b is the big-endian serialization of the words h.
IsBigEndianOf(b, h) ==
    /\ Len(b) = 4 * Len(h)
    /\ \A i \in 0..(Len(h) - 1) :
          /\ \A q \in 1..4 : b[4 * i + q] \in 0..255
          /\ b[4 * i + 1] * 256 + b[4 * i + 2] = h[i + 1][1]
          /\ b[4 * i + 3] * 256 + b[4 * i + 4] = h[i + 1][2]

\* hex(x): the lower-case hex string of x.
Hex(x) ==
    [i \in 1..(2 * Len(x)) |->
        LET byte == x[((i - 1) \div 2) + 1]
        IN  HexLower[(IF i % 2 = 1 THEN byte \div 16 ELSE byte % 16) + 1]]

AfterBytes == dg.pc \in {"bytes", "copied", "conv8", "conv32", "hdr"}
AfterCopy == dg.pc \in {"copied", "conv8", "conv32", "hdr"}
AfterConv8 == dg.pc \in {"conv8", "conv32", "hdr"}
AfterConv32 == dg.pc \in {"conv32", "hdr"}

C8_SerializationBigEndian ==
    /\ AfterBytes =>
          /\ Len(dg.out) = 32
          /\ IsBigEndianOf(dg.out, dg.h)
          /\ \A x \in XInputs : dg.s = Hex(x) => dg.out = x
    /\ \A x \in XInputs : (dg.pc = "parsed" /\ dg.s = Hex(x)) => ~dg.err
    /\ AfterCopy =>
          IF Len(dg.dst0) = 32
          THEN ~dg.panicked /\ IsBigEndianOf(dg.dst, dg.h)
          ELSE dg.panicked /\ dg.dst = dg.dst0
    /\ AfterConv8 =>
          IF Len(dg.w0) = 8
          THEN ~dg.wpanic /\ dg.w = dg.h
          ELSE dg.wpanic /\ dg.w = dg.w0
    /\ AfterConv32 =>
          IF Len(dg.b0) = 32
          THEN ~dg.bpanic /\ IsBigEndianOf(dg.b, dg.h)
          ELSE dg.bpanic /\ dg.b = dg.b0
    /\ dg.pc = "hdr" =>
          /\ Len(dg.hdr) = 80
          /\ IsBigEndianOf(SubSeq(dg.hdr, 5, 36), dg.h)
          /\ IsBigEndianOf(SubSeq(dg.hdr, 37, 68), dg.h)

\* The digest fe 23 48 ... was parsed from its hex string, serialized,
\* refused by Copy into 31 bytes and read back by Conv8to32 into 8 words.
C8_Witness ==
    /\ dg.pc = "conv32"
    /\ dg.s = Hex(XBytes(2))
    /\ dg.out = XBytes(2)
    /\ dg.h[1] = <<65059, 18541>>
    /\ Len(dg.dst0) = 31 /\ dg.panicked
    /\ Len(dg.w0) = 8 /\ dg.w = dg.h
    /\ Len(dg.b0) = 32 /\ ~dg.bpanic

-----------------------------------------------------------------------------
(* Concurrent calls: two callers hash (one with each implementation), and  *)
(* a third encodes, slices of the same array, with no coordination; their  *)
(* statements interleave.                                                  *)

\* The lengths of the two hashed slices arr[0:n], and of the encoded one.
ConcLens == {3, 55}
ConcEncLen == 5

\* The length of the shared array: no room for any padding, or room for all.
ConcCaps == {55, 128}

InitConc ==
    \E n1 \in {3}, n2 \in ConcLens, cap \in ConcCaps :
        /\ arr = Msg(cap, 97)
        /\ orig = Msg(cap, 97)
        /\ call = [p \in Procs |-> IF p = 1 THEN ShaEntry("add512", n1)
                                             ELSE ShaEntry("words", n2)]
        /\ enc = EncEntry(ConcEncLen)
        /\ dec = DecIdle
        /\ dg = DgIdle

NextConc ==
    \/ \E p \in Procs :
          \/ PadAppend(p)
          \/ PadMark(p)
          \/ PadLen(p)
          \/ ConvWords(p)
          \/ Chunk(p)
          \/ Return(p)
    \/ EncCount
    \/ EncByte
    \/ EncFinish

SpecConc == InitConc /\ [][NextConc]_vars

-----------------------------------------------------------------------------
(* C4: Sha2_256 and Encode are safe to call concurrently with no           *)
(* coordination: for any interleaving of two or more calls, including      *)
(* calls on the same slice or on slices over the same backing array, no    *)
(* call writes memory that another call reads or writes, and each call     *)
(* returns the result it returns when run alone on the same input (for     *)
(* Sha2_256 the SHA-256 digest, for Encode the Base58 string).             *)
C4_ConcurrentCallsIndependent ==
    /\ \A p \in Procs, q \in Procs :
          p # q => call[p].wr \cap (call[q].rd \cup call[q].wr) = {}
    /\ \A p \in Procs : call[p].wr \cap enc.rd = {}
    /\ \A p \in Procs : call[p].pc = "done" => call[p].out = RefDigest(Input(p))
    /\ enc.pc = "done" => enc.out = RefEncode(EncInput)

=============================================================================
